---- MODULE Spec2Model ----
(***************************************************************************)
(* ProductTrack Pro: the application state container (App), the spreadsheet *)
(* decoder (parseExcelFile) and the data grid (DataGrid) with its column    *)
(* inference, grouping, tag and filter logic.                               *)
(*                                                                          *)
(* JavaScript strings are sequences of one-character strings, so that       *)
(* toLowerCase, trim, includes and the /^\d+$/ test are computed.           *)
(* JavaScript values are records [t, n, s]: t is the dynamic type.          *)
(***************************************************************************)
EXTENDS Integers, Sequences, FiniteSets, TLC

VARIABLES
    now,                  \* the value Date.now() returns
    files,                \* App: FileSession[]
    activeFileId,         \* App: string | null
    isProcessing,         \* App: boolean
    error,                \* App: string | null
    uploads,              \* handleFileSelect calls awaiting parseExcelFile
    searchTerm,           \* DataGrid: string
    classifyCol,          \* DataGrid: string
    userSelectedNameCol,  \* DataGrid: string
    activeTag,            \* DataGrid: string | null
    isSearchModalOpen,    \* DataGrid: boolean
    searchProductName,    \* DataGrid: string
    images,               \* ImageSearchModal: string[]
    isLoading,            \* ImageSearchModal: boolean
    modalError,           \* ImageSearchModal: error, string | null
    searches,             \* handleSearch calls awaiting searchProductImages
    inp,                  \* argument record of a function evaluation
    out                   \* its result

vars == <<now, files, activeFileId, isProcessing, error, uploads,
          searchTerm, classifyCol, userSelectedNameCol, activeTag,
          isSearchModalOpen, searchProductName, images, isLoading, modalError,
          searches, inp, out>>

appVars == <<now, files, activeFileId, isProcessing, error, uploads>>
gridVars == <<searchTerm, classifyCol, userSelectedNameCol, activeTag>>
modalVars == <<isSearchModalOpen, searchProductName, images, isLoading, modalError,
               searches>>
evalVars == <<inp, out>>

----------------------------------------------------------------------------
(* Bounds of the model *)

MaxFiles == 2       \* files loaded at once
MaxExtra == 1       \* rows of an enumerated row set after the sampled ones
MaxRows == 3        \* rows of an enumerated row set

----------------------------------------------------------------------------
(* JavaScript values *)

Undefined == [t |-> "undef", n |-> 0, s |-> <<>>]
Null == [t |-> "null", n |-> 0, s |-> <<>>]
Num(x) == [t |-> "num", n |-> x, s |-> <<>>]
Str(x) == [t |-> "str", n |-> 0, s |-> x]

Digits == <<"0", "1", "2", "3", "4", "5", "6", "7", "8", "9">>
Upper == <<"A", "B", "C", "D", "E", "F", "G", "H", "I", "J", "K", "L", "M",
           "N", "O", "P", "Q", "R", "S", "T", "U", "V", "W", "X", "Y", "Z">>
Lower == <<"a", "b", "c", "d", "e", "f", "g", "h", "i", "j", "k", "l", "m",
           "n", "o", "p", "q", "r", "s", "t", "u", "v", "w", "x", "y", "z">>
Space == " "

Min(a, b) == IF a < b THEN a ELSE b

\* Number.prototype.toString for the integers
RECURSIVE natToString(_)
natToString(x) ==
    IF x < 10 THEN <<Digits[x + 1]>>
    ELSE natToString(x \div 10) \o <<Digits[(x % 10) + 1]>>

numToString(x) == IF x < 0 THEN <<"-">> \o natToString(0 - x) ELSE natToString(x)

\* String(val)
String(val) ==
    CASE val.t = "num" -> numToString(val.n)
      [] val.t = "str" -> val.s
      [] val.t = "null" -> <<"n", "u", "l", "l">>
      [] OTHER -> <<"u", "n", "d", "e", "f", "i", "n", "e", "d">>

lowerOfUpper == [c \in {Upper[i] : i \in 1..26} |-> Lower[CHOOSE i \in 1..26 : Upper[i] = c]]

toLowerChar(c) == IF c \in DOMAIN lowerOfUpper THEN lowerOfUpper[c] ELSE c

toLowerCase(str) == [i \in 1..Len(str) |-> toLowerChar(str[i])]

\* String.prototype.includes
includes(str, sub) ==
    \E i \in 0..(Len(str) - Len(sub)) : \A j \in 1..Len(sub) : str[i + j] = sub[j]

\* String.prototype.trim
trim(str) ==
    LET ink == {i \in 1..Len(str) : str[i] # Space}
    IN  IF ink = {} THEN <<>>
        ELSE SubSeq(str, CHOOSE i \in ink : \A j \in ink : i <= j,
                         CHOOSE i \in ink : \A j \in ink : i >= j)

\* /^\d+$/.test(str)
DigitChars == {Digits[k] : k \in 1..10}

allDigits(str) ==
    /\ Len(str) > 0
    /\ \A i \in 1..Len(str) : str[i] \in DigitChars

\* a value used as a condition: !!val
truthy(val) ==
    CASE val.t = "num" -> val.n # 0
      [] val.t = "str" -> val.s # <<>>
      [] OTHER -> FALSE

----------------------------------------------------------------------------
(* Objects: a row is the sequence of its own properties, in key order *)

ObjectKeys(row) == [i \in 1..Len(row) |-> row[i].k]
ObjectValues(row) == [i \in 1..Len(row) |-> row[i].v]
hasKey(row, key) == \E i \in 1..Len(row) : row[i].k = key

\* row[key]
Get(row, key) ==
    IF hasKey(row, key)
    THEN row[CHOOSE i \in 1..Len(row) : row[i].k = key].v
    ELSE Undefined

\* { ...row, [key]: val }
Put(row, key, val) ==
    IF hasKey(row, key)
    THEN [i \in 1..Len(row) |-> IF row[i].k = key THEN [k |-> key, v |-> val] ELSE row[i]]
    ELSE Append(row, [k |-> key, v |-> val])

\* Array.prototype.includes
arrayIncludes(arr, x) == \E i \in 1..Len(arr) : arr[i] = x

\* a descending sort that is not stable: equal keys come out in reverse order
sortDescendingTiesReversed(arr, key) ==
    LET n == Len(key)
        pos(i) == 1 + Cardinality({j \in 1..n : \/ key[j] > key[i]
                                               \/ (key[j] = key[i] /\ j > i)})
    IN  [p \in 1..n |-> arr[CHOOSE i \in 1..n : pos(i) = p]]

\* Array.prototype.sort with a comparator (a, b) => key(b) - key(a): the sort is
\* stable, so equal keys keep their order
sortDescending(arr, key) ==
    LET n == Len(key)
        pos(i) == 1 + Cardinality({j \in 1..n : \/ key[j] > key[i]
                                               \/ (key[j] = key[i] /\ j < i)})
    IN  [p \in 1..n |-> arr[CHOOSE i \in 1..n : pos(i) = p]]

----------------------------------------------------------------------------
(* String literals of the source *)

s_id == <<"i", "d">>  \* "id"
s_processingStatus == <<"p", "r", "o", "c", "e", "s", "s", "i", "n", "g", "S", "t", "a", "t", "u", "s">>  \* "processingStatus"
s_Incomplete == <<"I", "n", "c", "o", "m", "p", "l", "e", "t", "e">>  \* "Incomplete"
s_Completed == <<"C", "o", "m", "p", "l", "e", "t", "e", "d">>  \* "Completed"
s_NA == <<"N", "/", "A">>  \* "N/A"
s_rowPrefix == <<"r", "o", "w", "-">>  \* "row-"
s_filePrefix == <<"f", "i", "l", "e", "-">>  \* "file-"
t_classification_data == <<"c", "l", "a", "s", "s", "i", "f", "i", "c", "a", "t", "i", "o", "n", " ", "d", "a", "t", "a">>  \* "classification data"
t_description == <<"d", "e", "s", "c", "r", "i", "p", "t", "i", "o", "n">>  \* "description"
t_desc == <<"d", "e", "s", "c">>  \* "desc"
t_product_name == <<"p", "r", "o", "d", "u", "c", "t", " ", "n", "a", "m", "e">>  \* "product name"
t_item_name == <<"i", "t", "e", "m", " ", "n", "a", "m", "e">>  \* "item name"
t_name == <<"n", "a", "m", "e">>  \* "name"
t_title == <<"t", "i", "t", "l", "e">>  \* "title"
t_code == <<"c", "o", "d", "e">>  \* "code"
t_sku == <<"s", "k", "u">>  \* "sku"
t_number == <<"n", "u", "m", "b", "e", "r">>  \* "number"
t_no_dot == <<"n", "o", ".">>  \* "no."
t_price == <<"p", "r", "i", "c", "e">>  \* "price"
t_cost == <<"c", "o", "s", "t">>  \* "cost"
t_qty == <<"q", "t", "y">>  \* "qty"
t_quantity == <<"q", "u", "a", "n", "t", "i", "t", "y">>  \* "quantity"
t_unit == <<"u", "n", "i", "t">>  \* "unit"
t_measure == <<"m", "e", "a", "s", "u", "r", "e">>  \* "measure"
t_packaging == <<"p", "a", "c", "k", "a", "g", "i", "n", "g">>  \* "packaging"
t_material == <<"m", "a", "t", "e", "r", "i", "a", "l">>  \* "material"
t_type == <<"t", "y", "p", "e">>  \* "type"
t_cat == <<"c", "a", "t">>  \* "cat"
t_group == <<"g", "r", "o", "u", "p">>  \* "group"
t_classification_code == <<"c", "l", "a", "s", "s", "i", "f", "i", "c", "a", "t", "i", "o", "n", " ", "c", "o", "d", "e">>  \* "classification code"

h_ClassificationDataCode == <<"C", "l", "a", "s", "s", "i", "f", "i", "c", "a", "t", "i", "o", "n", " ", "D", "a", "t", "a", " ", "C", "o", "d", "e">>  \* "Classification Data Code"
h_Description == <<"D", "e", "s", "c", "r", "i", "p", "t", "i", "o", "n">>  \* "Description"
h_ProductName == <<"P", "r", "o", "d", "u", "c", "t", " ", "N", "a", "m", "e">>  \* "Product Name"
h_Name == <<"N", "a", "m", "e">>  \* "Name"
h_Price == <<"P", "r", "i", "c", "e">>  \* "Price"
h_SKU == <<"S", "K", "U">>  \* "SKU"
h_Unit == <<"U", "n", "i", "t">>  \* "Unit"
h_Title == <<"T", "i", "t", "l", "e">>  \* "Title"
h_Category == <<"C", "a", "t", "e", "g", "o", "r", "y">>  \* "Category"
h_Notes == <<"N", "o", "t", "e", "s">>  \* "Notes"
h_Stock == <<"S", "t", "o", "c", "k">>  \* "Stock"
v_WidgetA == <<"W", "i", "d", "g", "e", "t", " ", "A">>  \* "Widget A"
v_WidgetB == <<"W", "i", "d", "g", "e", "t", " ", "B">>  \* "Widget B"
v_Gadget == <<"G", "a", "d", "g", "e", "t">>  \* "Gadget"
v_box == <<"b", "o", "x">>  \* "box"
v_case == <<"c", "a", "s", "e">>  \* "case"
v_boxPadded == <<" ", "b", "o", "x", " ">>  \* " box "
v_blank == <<" ", " ">>  \* "  "
v_empty == <<>>  \* ""
v_digits == <<"1", "2">>  \* "12"
v_digitsPadded == <<" ", "1", "2", " ">>  \* " 12 "
v_digitsLong == <<"1", "2", "3", "4", "5", "6", "7">>  \* "1234567"
v_shortSpaced == <<"a", " ", "b">>  \* "a b"
v_long == <<"a", "b", " ", "c", "d", "e", "f">>  \* "ab cdef"
q_Widget == <<"W", "i", "d", "g", "e", "t">>  \* "Widget"
q_widgetLower == <<"w", "i", "d", "g", "e", "t">>  \* "widget"
q_comp == <<"C", "o", "m", "p">>  \* "Comp"

\* "Failed to parse file. Please ensure it is a valid Excel or CSV file."
s_parseFailed ==
    <<"F", "a", "i", "l", "e", "d", " ", "t", "o", " ", "p", "a", "r", "s",
    "e", " ", "f", "i", "l", "e", ".", " ", "P", "l", "e", "a", "s", "e",
    " ", "e", "n", "s", "u", "r", "e", " ", "i", "t", " ", "i", "s", " ",
    "a", " ", "v", "a", "l", "i", "d", " ", "E", "x", "c", "e", "l", " ",
    "o", "r", " ", "C", "S", "V", " ", "f", "i", "l", "e", ".">>

\* "No specific images found. Try checking the Google Images tab."
s_noImages ==
    <<"N", "o", " ", "s", "p", "e", "c", "i", "f", "i", "c", " ", "i", "m",
    "a", "g", "e", "s", " ", "f", "o", "u", "n", "d", ".", " ", "T", "r", "y",
    " ", "c", "h", "e", "c", "k", "i", "n", "g", " ", "t", "h", "e", " ", "G",
    "o", "o", "g", "l", "e", " ", "I", "m", "a", "g", "e", "s", " ", "t", "a",
    "b", ".">>

----------------------------------------------------------------------------
(* DataGrid: derived values *)

SampleLimit == 5

\* headers with the filter on 'id' forgotten
headersKeepId(d) ==
    SelectSeq(ObjectKeys(d[1]), LAMBDA key : key # s_processingStatus)

\* headers: the keys of the first row without the reserved fields
headers(d) ==
    SelectSeq(ObjectKeys(d[1]), LAMBDA key : key # s_id /\ key # s_processingStatus)

\* headerScore without the penalty for id, code, sku, number and no.
headerScoreNoIdPenalty(header) ==
    LET lowerH == toLowerCase(header)
        rule == IF includes(lowerH, t_classification_data) THEN 100
                ELSE IF includes(lowerH, t_description) \/ includes(lowerH, t_desc) THEN 80
                ELSE IF includes(lowerH, t_product_name) \/ includes(lowerH, t_item_name) THEN 70
                ELSE IF lowerH = t_name THEN 60
                ELSE IF includes(lowerH, t_title) THEN 50
                ELSE 0
        pricePenalty == IF \/ includes(lowerH, t_price) \/ includes(lowerH, t_cost)
                           \/ includes(lowerH, t_qty) \/ includes(lowerH, t_quantity)
                        THEN 100 ELSE 0
    IN  rule - pricePenalty

\* detectedNameCol, the score from the header text
headerScore(header) ==
    LET lowerH == toLowerCase(header)
        rule == IF includes(lowerH, t_classification_data) THEN 100
                ELSE IF includes(lowerH, t_description) \/ includes(lowerH, t_desc) THEN 80
                ELSE IF includes(lowerH, t_product_name) \/ includes(lowerH, t_item_name) THEN 70
                ELSE IF lowerH = t_name THEN 60
                ELSE IF includes(lowerH, t_title) THEN 50
                ELSE 0
        idPenalty == IF \/ includes(lowerH, s_id) \/ includes(lowerH, t_code)
                        \/ includes(lowerH, t_sku) \/ includes(lowerH, t_number)
                        \/ includes(lowerH, t_no_dot)
                     THEN 50 ELSE 0
        pricePenalty == IF \/ includes(lowerH, t_price) \/ includes(lowerH, t_cost)
                           \/ includes(lowerH, t_qty) \/ includes(lowerH, t_quantity)
                        THEN 100 ELSE 0
    IN  rule - idPenalty - pricePenalty

\* detectedNameCol, the sample loop: a value counts as a number when it is a
\* number or a string of digits after trimming
isNumeric(val) ==
    \/ val.t = "num"
    \/ val.t = "str" /\ allDigits(trim(val.s))

\* a sample of all rows
sampleSizeAll(d) == Len(d)

sampleSize(d) == Min(Len(d), SampleLimit)

numberCount(header, d) ==
    Cardinality({i \in 1..sampleSize(d) : isNumeric(Get(d[i], header))})

longStringCount(header, d) ==
    Cardinality({i \in 1..sampleSize(d) :
        LET val == Get(d[i], header)
        IN  val.t = "str" /\ ~allDigits(trim(val.s)) /\ Len(val.s) > 5})

\* hasSpacesCount taken over every string, the strings of digits too
hasSpacesCountAnyString(header, d) ==
    Cardinality({i \in 1..sampleSize(d) :
        LET val == Get(d[i], header)
        IN  val.t = "str" /\ includes(val.s, <<Space>>)})

hasSpacesCount(header, d) ==
    Cardinality({i \in 1..sampleSize(d) :
        LET val == Get(d[i], header)
        IN  val.t = "str" /\ ~allDigits(trim(val.s)) /\ includes(val.s, <<Space>>)})

\* the threshold with >= for >
mostlyNumericAtLeast(header, d) == numberCount(header, d) * 10 >= sampleSize(d) * 6

\* numberCount > sampleSize * 0.6, in tenths (sampleSize <= 5, and 5 * 0.6 is 3
\* in double arithmetic)
mostlyNumeric(header, d) == numberCount(header, d) * 10 > sampleSize(d) * 6

\* contentScore without the penalty for mostly numeric samples
contentScoreNoNumericPenalty(header, d) ==
    (IF hasSpacesCount(header, d) > 0 THEN 50 ELSE 0)
    + (IF longStringCount(header, d) > 0 THEN 30 ELSE 0)

\* detectedNameCol, the score from the sampled values
contentScore(header, d) ==
    (IF mostlyNumeric(header, d) THEN 0 - 200 ELSE 0)
    + (IF hasSpacesCount(header, d) > 0 THEN 50 ELSE 0)
    + (IF longStringCount(header, d) > 0 THEN 30 ELSE 0)

\* the column names of the uploaded sheets, and headerScore tabulated for them
HeaderNames ==
    {h_ClassificationDataCode, h_Description, h_ProductName, h_Name, h_Price,
     h_SKU, h_Unit, h_Title, h_Category, h_Notes, h_Stock}

headerScores == [h \in HeaderNames |-> headerScore(h)]

columnScore(header, d) ==
    (IF header \in HeaderNames THEN headerScores[header] ELSE headerScore(header))
    + contentScore(header, d)

\* scores over all keys of the first row, the reserved ones too
scoresAllKeys(d) ==
    LET hs == ObjectKeys(d[1])
    IN  [i \in 1..Len(hs) |-> [header |-> hs[i], score |-> columnScore(hs[i], d)]]

\* scores, before the sort
scores(d) ==
    LET hs == headers(d)
    IN  [i \in 1..Len(hs) |-> [header |-> hs[i], score |-> columnScore(hs[i], d)]]

sortedScores(d) ==
    LET unsorted == scores(d)
    IN  sortDescending(unsorted, [i \in 1..Len(unsorted) |-> unsorted[i].score])

detectedNameCol(d) ==
    IF Len(headers(d)) = 0 THEN <<>> ELSE sortedScores(d)[1].header

\* nameColumn with the operands exchanged: detectedNameCol || userSelectedNameCol
nameColumnInferredFirst(d, userSelected) ==
    IF detectedNameCol(d) # <<>> THEN detectedNameCol(d) ELSE userSelected

\* nameColumn = userSelectedNameCol || detectedNameCol
nameColumn(d, userSelected) ==
    IF userSelected # <<>> THEN userSelected ELSE detectedNameCol(d)

\* the test of the group-by effect's regular expression (flag i)
groupPattern(h) ==
    LET lowerH == toLowerCase(h)
    IN  \/ includes(lowerH, t_unit) \/ includes(lowerH, t_measure)
        \/ includes(lowerH, t_packaging) \/ includes(lowerH, t_material)
        \/ includes(lowerH, t_type) \/ includes(lowerH, t_cat)
        \/ includes(lowerH, t_group) \/ includes(lowerH, t_classification_code)

\* groupPattern tabulated for the column names of the uploaded sheets
groupPatterns == [h \in HeaderNames |-> groupPattern(h)]

matchesGroupPattern(h) ==
    IF h \in HeaderNames THEN groupPatterns[h] ELSE groupPattern(h)

\* headers.find(h => pattern.test(h)), Undefined when nothing matches
groupCandidate(hs) ==
    LET found == SelectSeq(hs, matchesGroupPattern)
    IN  IF found = <<>> THEN Undefined ELSE Str(found[1])

\* the group-by effect without its early return for a column that is a header
groupByEffectAlwaysInfers(hs, cc) ==
    IF Len(hs) > 0
    THEN IF truthy(groupCandidate(hs)) THEN groupCandidate(hs).s ELSE <<>>
    ELSE cc

\* the group-by effect: the value of classifyCol once the effect has run
groupByEffect(hs, cc) ==
    IF arrayIncludes(hs, cc) THEN cc
    ELSE IF Len(hs) > 0
         THEN IF truthy(groupCandidate(hs)) THEN groupCandidate(hs).s ELSE <<>>
         ELSE cc

\* the normalisation of a row's group value, in tags and in filteredData
groupValue(row, col) ==
    LET rawVal == Get(row, col)
    IN  IF rawVal.t # "undef" /\ rawVal.t # "null" THEN trim(String(rawVal)) ELSE s_NA

\* counts.set(val, (counts.get(val) || 0) + 1) on a Map kept in insertion order
countsSet(counts, val) ==
    IF \E i \in 1..Len(counts) : counts[i].tag = val
    THEN [i \in 1..Len(counts) |->
            IF counts[i].tag = val
            THEN [tag |-> val, count |-> counts[i].count + 1]
            ELSE counts[i]]
    ELSE Append(counts, [tag |-> val, count |-> 1])

\* the forEach of tags without its test of val: blank values are counted too
RECURSIVE tagCountsWithBlank(_, _, _)
tagCountsWithBlank(d, col, k) ==
    IF k = 0 THEN <<>>
    ELSE countsSet(tagCountsWithBlank(d, col, k - 1), groupValue(d[k], col))

\* the forEach of tags over the first k rows
RECURSIVE tagCounts(_, _, _)
tagCounts(d, col, k) ==
    IF k = 0 THEN <<>>
    ELSE LET counts == tagCounts(d, col, k - 1)
             val == groupValue(d[k], col)
         IN  IF val # <<>> THEN countsSet(counts, val) ELSE counts

\* tags without the sort
tagsUnsorted(d, col) ==
    IF col = <<>> THEN <<>> ELSE tagCounts(d, col, Len(d))

tags(d, col) ==
    IF col = <<>> THEN <<>>
    ELSE LET counts == tagCounts(d, col, Len(d))
         IN  sortDescending(counts, [i \in 1..Len(counts) |-> counts[i].count])

\* matchesSearch without toLowerCase on the search term
matchesSearchExactTerm(row, st) ==
    \E i \in 1..Len(row) :
        includes(toLowerCase(String(ObjectValues(row)[i])), st)

\* filteredData
matchesSearch(row, st) ==
    \E i \in 1..Len(row) :
        includes(toLowerCase(String(ObjectValues(row)[i])), toLowerCase(st))

\* matchesTag left at its initial value
matchesTagAlways(row, col, at) == TRUE

\* matchesTag comparing the value as a string without trim
matchesTagUntrimmed(row, col, at) ==
    IF truthy(at)
    THEN LET rawVal == Get(row, col)
         IN  (IF rawVal.t # "undef" /\ rawVal.t # "null" THEN String(rawVal) ELSE s_NA) = at.s
    ELSE TRUE

matchesTag(row, col, at) ==
    IF truthy(at) THEN groupValue(row, col) = at.s ELSE TRUE

\* filteredData keeping the rows that pass either test
filteredDataEither(d, st, col, at) ==
    SelectSeq(d, LAMBDA row : matchesSearch(row, st) \/ matchesTag(row, col, at))

filteredData(d, st, col, at) ==
    SelectSeq(d, LAMBDA row : matchesSearch(row, st) /\ matchesTag(row, col, at))

----------------------------------------------------------------------------
(* The spreadsheets a user can upload: what XLSX.utils.sheet_to_json returns *)
(* for each, or that reading it throws. Every readable sheet has a row, and  *)
(* a sheet is uploaded again only after its file was deleted.                *)

Row(pairs) == [i \in 1..Len(pairs) |-> [k |-> pairs[i][1], v |-> pairs[i][2]]]

SheetInventory ==
    << Row(<< <<h_Name, Str(v_WidgetA)>>, <<h_Unit, Str(v_box)>> >>),
       Row(<< <<h_Name, Str(v_Gadget)>>, <<h_Unit, Str(v_case)>> >>) >>

SheetCatalog ==
    << Row(<< <<h_SKU, Str(v_digits)>>, <<h_Category, Str(v_boxPadded)>>,
              <<h_Unit, Str(v_case)>> >>) >>

\* a sheet whose only columns are named like the reserved fields
SheetIds == << Row(<< <<s_id, Num(7)>>, <<s_processingStatus, Str(s_Completed)>> >>) >>

\* the values Date.now() takes while files are uploaded
ClockValues == {1, 2}

SheetNames == {"inventory", "catalog", "ids", "broken"}

sheetReadable(name) == name # "broken"

sheetToJson(name) ==
    CASE name = "inventory" -> SheetInventory
      [] name = "catalog" -> SheetCatalog
      [] OTHER -> SheetIds

SearchTerms == {<<>>, q_widgetLower}

----------------------------------------------------------------------------
(* types.ts, StatusToggle, services/excel.ts *)

INCOMPLETE == Str(s_Incomplete)
COMPLETED == Str(s_Completed)

\* a StatusToggle that only ever completes
statusToggleComplete(status) == COMPLETED

\* StatusToggle: the status its button passes to onChange
statusToggleClick(status) == IF status = COMPLETED THEN INCOMPLETE ELSE COMPLETED

\* parseExcelFile with the spread last: ({id, processingStatus, ...row})
parseExcelFileSpreadLast(jsonData, t) ==
    [i \in 1..Len(jsonData) |->
        LET withId == IF hasKey(jsonData[i], s_id) THEN jsonData[i]
                      ELSE Put(jsonData[i], s_id,
                               Str(s_rowPrefix \o numToString(t) \o <<"-">> \o numToString(i - 1)))
        IN  IF hasKey(withId, s_processingStatus) THEN withId
            ELSE Put(withId, s_processingStatus, INCOMPLETE)]

\* parseExcelFile: jsonData.map((row, index) => ({...row, id, processingStatus}))
parseExcelFile(jsonData, t) ==
    [i \in 1..Len(jsonData) |->
        Put(Put(jsonData[i], s_id,
                Str(s_rowPrefix \o numToString(t) \o <<"-">> \o numToString(i - 1))),
            s_processingStatus, INCOMPLETE)]

----------------------------------------------------------------------------
(* App *)

\* files.find(f => f.id === activeFileId)
hasActiveFile(fs, afid) == \E i \in 1..Len(fs) : fs[i].id = afid

activeFile(fs, afid) == fs[CHOOSE i \in 1..Len(fs) :
                              fs[i].id = afid /\ \A j \in 1..(i - 1) : fs[j].id # afid]

\* handleUpdateStatus: the value of files after it
handleUpdateStatus(fs, afid, id, newStatus) ==
    IF ~truthy(afid) THEN fs
    ELSE [f \in 1..Len(fs) |->
            IF fs[f].id # afid THEN fs[f]
            ELSE [fs[f] EXCEPT !.data =
                    [r \in 1..Len(fs[f].data) |->
                        IF Get(fs[f].data[r], s_id) = id
                        THEN Put(fs[f].data[r], s_processingStatus, newStatus)
                        ELSE fs[f].data[r]]]]

\* the status cell of DataGrid: StatusToggle's onChange calls
\* onUpdateStatus(row.id, newStatus), which is handleUpdateStatus
statusCellClick(fs, afid, row) ==
    handleUpdateStatus(fs, afid, Get(row, s_id),
                       statusToggleClick(Get(row, s_processingStatus)))

\* handleDeleteFile, confirmed: the value of files after it
deleteFile(fs, fileId) == SelectSeq(fs, LAMBDA f : f.id # fileId)

removeAt(seq, i) == SubSeq(seq, 1, i - 1) \o SubSeq(seq, i + 1, Len(seq))

----------------------------------------------------------------------------
(* DataGrid as App renders it: mounted while App has an active file. Its    *)
(* state is created at mount and kept across renders with other data.       *)

gridMounted == hasActiveFile(files, activeFileId)
data == activeFile(files, activeFileId).data
visibleRows == filteredData(data, searchTerm, classifyCol, activeTag)
currentTags == tags(data, classifyCol)
effectiveNameColumn == nameColumn(data, userSelectedNameCol)

\* The DataGrid state after App rendered with fs and afid: st, cc, us, at
\* are the values its handlers set; a grid that was not mounted starts from
\* useState's initial values; the group-by effect has run.
GridAfter(fs, afid, st, cc, us, at) ==
    IF ~hasActiveFile(fs, afid)
    THEN /\ searchTerm' = <<>>
         /\ classifyCol' = <<>>
         /\ userSelectedNameCol' = <<>>
         /\ activeTag' = Null
    ELSE LET hs == headers(activeFile(fs, afid).data)
         IN  IF gridMounted
             THEN /\ searchTerm' = st
                  /\ classifyCol' = groupByEffect(hs, cc)
                  /\ userSelectedNameCol' = us
                  /\ activeTag' = at
             ELSE /\ searchTerm' = <<>>
                  /\ classifyCol' = groupByEffect(hs, <<>>)
                  /\ userSelectedNameCol' = <<>>
                  /\ activeTag' = Null

GridKept(fs, afid) ==
    GridAfter(fs, afid, searchTerm, classifyCol, userSelectedNameCol, activeTag)

\* useState's initial values in DataGrid (the image search modal) and in
\* ImageSearchModal, no search in flight
ModalIdle ==
    /\ isSearchModalOpen = FALSE
    /\ searchProductName = <<>>
    /\ images = <<>>
    /\ isLoading = FALSE
    /\ modalError = Null
    /\ searches = <<>>

Init ==
    /\ now = 0
    /\ files = <<>>
    /\ activeFileId = Null
    /\ isProcessing = FALSE
    /\ error = Null
    /\ uploads = <<>>
    /\ searchTerm = <<>>
    /\ classifyCol = <<>>
    /\ userSelectedNameCol = <<>>
    /\ activeTag = Null
    /\ ModalIdle
    /\ inp = <<>>
    /\ out = <<>>

\* UploadZone (shown while no file is active) calls handleFileSelect, which
\* runs up to its await
handleFileSelect(sheet) ==
    /\ ~gridMounted
    /\ Len(files) + Len(uploads) < MaxFiles
    /\ \A i \in 1..Len(files) : files[i].name # sheet
    /\ \A i \in 1..Len(uploads) : uploads[i] # sheet
    /\ isProcessing' = TRUE
    /\ error' = Null
    /\ uploads' = Append(uploads, sheet)
    /\ UNCHANGED <<now, files, activeFileId>>
    /\ UNCHANGED gridVars
    /\ UNCHANGED evalVars
    /\ UNCHANGED modalVars

\* parseExcelFile resolved at time t: the rest of handleFileSelect's try, and
\* its finally. Date.now() has not changed since the last upload, or has.
parseResolved(u, t) ==
    /\ sheetReadable(uploads[u])
    /\ t \in {now, now + 1}
    /\ now' = t
    /\ LET newSession == [id |-> Str(s_filePrefix \o numToString(t)),
                          name |-> uploads[u],
                          createdAt |-> t,
                          data |-> parseExcelFile(sheetToJson(uploads[u]), t)]
       IN  /\ files' = Append(files, newSession)
           /\ activeFileId' = newSession.id
           /\ GridKept(files', activeFileId')
    /\ isProcessing' = FALSE
    /\ uploads' = removeAt(uploads, u)
    /\ UNCHANGED error
    /\ UNCHANGED evalVars
    /\ UNCHANGED modalVars

\* a catch that also leaves the data view
parseRejectedLeavesView(u) ==
    /\ ~sheetReadable(uploads[u])
    /\ error' = Str(s_parseFailed)
    /\ isProcessing' = FALSE
    /\ uploads' = removeAt(uploads, u)
    /\ activeFileId' = Null
    /\ GridKept(files, activeFileId')
    /\ UNCHANGED <<now, files>>
    /\ UNCHANGED evalVars
    /\ UNCHANGED modalVars

\* parseExcelFile rejected: handleFileSelect's catch and finally
parseRejected(u) ==
    /\ ~sheetReadable(uploads[u])
    /\ error' = Str(s_parseFailed)
    /\ isProcessing' = FALSE
    /\ uploads' = removeAt(uploads, u)
    /\ UNCHANGED <<now, files, activeFileId>>
    /\ UNCHANGED gridVars
    /\ UNCHANGED evalVars
    /\ UNCHANGED modalVars

\* a click on a file of the sidebar
selectFile(f) ==
    /\ activeFileId' = files[f].id
    /\ GridKept(files, activeFileId')
    /\ UNCHANGED <<now, files, isProcessing, error, uploads>>
    /\ UNCHANGED evalVars
    /\ UNCHANGED modalVars

\* the New Upload button
newUpload ==
    /\ activeFileId' = Null
    /\ GridKept(files, activeFileId')
    /\ UNCHANGED <<now, files, isProcessing, error, uploads>>
    /\ UNCHANGED evalVars
    /\ UNCHANGED modalVars

\* handleDeleteFile, the user confirming
handleDeleteFile(f) ==
    /\ files' = deleteFile(files, files[f].id)
    /\ activeFileId' = IF activeFileId = files[f].id THEN Null ELSE activeFileId
    /\ GridKept(files', activeFileId')
    /\ UNCHANGED <<now, isProcessing, error, uploads>>
    /\ UNCHANGED evalVars
    /\ UNCHANGED modalVars

\* a click on the StatusToggle of the r-th visible row
clickStatusToggle(r) ==
    /\ gridMounted
    /\ files' = statusCellClick(files, activeFileId, visibleRows[r])
    /\ GridKept(files', activeFileId)
    /\ UNCHANGED <<now, activeFileId, isProcessing, error, uploads>>
    /\ UNCHANGED evalVars
    /\ UNCHANGED modalVars

\* typing in the search box
setSearchTerm(st) ==
    /\ gridMounted
    /\ GridAfter(files, activeFileId, st, classifyCol, userSelectedNameCol, activeTag)
    /\ UNCHANGED appVars
    /\ UNCHANGED evalVars
    /\ UNCHANGED modalVars

\* the name column select: its options are the headers
selectNameCol(h) ==
    /\ gridMounted
    /\ GridAfter(files, activeFileId, searchTerm, classifyCol, headers(data)[h], activeTag)
    /\ UNCHANGED appVars
    /\ UNCHANGED evalVars
    /\ UNCHANGED modalVars

\* the group-by select: setClassifyCol and setActiveTag(null)
selectGroupCol(h) ==
    /\ gridMounted
    /\ GridAfter(files, activeFileId, searchTerm, headers(data)[h], userSelectedNameCol, Null)
    /\ UNCHANGED appVars
    /\ UNCHANGED evalVars
    /\ UNCHANGED modalVars

\* a click on the chip of the t-th tag
clickTag(t) ==
    /\ gridMounted
    /\ classifyCol # <<>>
    /\ GridAfter(files, activeFileId, searchTerm, classifyCol, userSelectedNameCol,
                 IF activeTag = Str(currentTags[t].tag) THEN Null ELSE Str(currentTags[t].tag))
    /\ UNCHANGED appVars
    /\ UNCHANGED evalVars
    /\ UNCHANGED modalVars

\* the All chip, shown while a tag is active
clearTag ==
    /\ gridMounted
    /\ classifyCol # <<>>
    /\ Len(currentTags) > 0
    /\ truthy(activeTag)
    /\ GridAfter(files, activeFileId, searchTerm, classifyCol, userSelectedNameCol, Null)
    /\ UNCHANGED appVars
    /\ UNCHANGED evalVars
    /\ UNCHANGED modalVars

Next ==
    \/ \E sheet \in SheetNames : handleFileSelect(sheet)
    \/ \E u \in 1..Len(uploads), t \in ClockValues : parseResolved(u, t)
    \/ \E u \in 1..Len(uploads) : parseRejected(u)
    \/ \E f \in 1..Len(files) : selectFile(f)
    \/ newUpload
    \/ \E f \in 1..Len(files) : handleDeleteFile(f)
    \/ gridMounted /\ \E r \in 1..Len(visibleRows) : clickStatusToggle(r)
    \/ \E st \in SearchTerms : setSearchTerm(st)
    \/ gridMounted /\ \E h \in 1..Len(headers(data)) : selectNameCol(h)
    \/ gridMounted /\ \E h \in 1..Len(headers(data)) : selectGroupCol(h)
    \/ gridMounted /\ \E t \in 1..Len(currentTags) : clickTag(t)
    \/ clearTag

Spec == Init /\ [][Next]_vars

----------------------------------------------------------------------------
(* Properties of the application, under Spec *)

Statuses == {INCOMPLETE, COMPLETED}

statusOf(row) == Get(row, s_processingStatus)

\* C5: every row's status is Incomplete or Completed; a click on a row's status
\* toggle changes it to the other status, and a second click changes it back.
C5_ToggleInvolution ==
    /\ \A f \in 1..Len(files) : \A r \in 1..Len(files[f].data) :
          statusOf(files[f].data[r]) \in Statuses
    /\ gridMounted
          => \A r \in 1..Len(data) :
                LET once == statusCellClick(files, activeFileId, data[r])
                    rowOnce == activeFile(once, activeFileId).data[r]
                    twice == statusCellClick(once, activeFileId, rowOnce)
                    rowTwice == activeFile(twice, activeFileId).data[r]
                IN  /\ statusOf(rowOnce) \in Statuses \ {statusOf(data[r])}
                    /\ statusOf(rowTwice) = statusOf(data[r])

C5_Witness ==
    /\ gridMounted
    /\ \E r \in 1..Len(data) : statusOf(data[r]) = COMPLETED
    /\ \E r \in 1..Len(data) : statusOf(data[r]) = INCOMPLETE

\* the ids of the rows of all files, and one that no row has
UpdateIds ==
    UNION {{Get(files[f].data[r], s_id) : r \in 1..Len(files[f].data)} : f \in 1..Len(files)}
    \cup {Str(<<"x">>)}

\* the position in files of the file that App renders: files.find's result
activeIndex == CHOOSE i \in 1..Len(files) :
                  files[i].id = activeFileId /\ \A j \in 1..(i - 1) : files[j].id # activeFileId

\* C6: handleUpdateStatus(id, s) changes the processingStatus of the row with
\* that id in the active file and nothing else: the other rows of that file, the
\* rows of every other file, the number and order of files and rows and the
\* other fields of the updated row stay; with no active file nothing changes.
C6_StatusUpdateFrame ==
    \A id \in UpdateIds : \A s \in Statuses :
        LET after == handleUpdateStatus(files, activeFileId, id, s)
        IN  /\ Len(after) = Len(files)
            /\ ~gridMounted => after = files
            /\ gridMounted =>
                  \A f \in 1..Len(files) :
                      IF f # activeIndex THEN after[f] = files[f]
                      ELSE /\ after[f].id = files[f].id
                           /\ after[f].name = files[f].name
                           /\ after[f].createdAt = files[f].createdAt
                           /\ Len(after[f].data) = Len(files[f].data)
                           /\ \A r \in 1..Len(files[f].data) :
                                 LET old == files[f].data[r]
                                     new == after[f].data[r]
                                 IN  IF Get(old, s_id) = id
                                     THEN /\ ObjectKeys(new) = ObjectKeys(old)
                                          /\ \A k \in 1..Len(old) :
                                                old[k].k # s_processingStatus
                                                   => new[k] = old[k]
                                          /\ statusOf(new) = s
                                     ELSE new = old

\* a step of the name column select
nameColSelected == gridMounted /\ \E h \in 1..Len(headers(data)) : selectNameCol(h)

\* C9: while the grid stays mounted, a name column the user has chosen is the
\* effective name column after every step other than a new choice.
C9_ExplicitBeatsInferred ==
    [][(gridMounted /\ userSelectedNameCol # <<>> /\ gridMounted')
          => (effectiveNameColumn' = userSelectedNameCol \/ nameColSelected)]_vars

C9_Witness ==
    /\ gridMounted
    /\ userSelectedNameCol # <<>>
    /\ userSelectedNameCol # detectedNameCol(data)
    /\ arrayIncludes(headers(data), userSelectedNameCol)
    /\ searchTerm # <<>>
    /\ truthy(activeTag)
    /\ \E r \in 1..Len(data) : statusOf(data[r]) = COMPLETED

\* the first header, in order, that contains one of the grouping words, or ""
firstGroupHeader(hs) ==
    IF \E i \in 1..Len(hs) : groupPattern(hs[i])
    THEN hs[CHOOSE i \in 1..Len(hs) :
                groupPattern(hs[i]) /\ \A j \in 1..(i - 1) : ~groupPattern(hs[j])]
    ELSE <<>>

\* a step of the group-by select
groupColSelected == gridMounted /\ \E h \in 1..Len(headers(data)) : selectGroupCol(h)

\* C10: when the group column a render starts with is not a header, the group
\* column becomes the first header that contains a grouping word, or "" when
\* there is none.
C10_DefaultGroupSelection ==
    [][(/\ gridMounted'
        /\ ~groupColSelected
        /\ ~arrayIncludes(headers(data)', IF gridMounted THEN classifyCol ELSE <<>>))
          => classifyCol' = firstGroupHeader(headers(data)')]_vars

\* C11: while the grid stays mounted and the group column is one of the headers
\* of the data the grid renders next, the group-by effect leaves the group
\* column as it is, also when an earlier header contains a grouping word; only
\* the group-by select changes it.
C11_GroupColumnPreserved ==
    [][(gridMounted /\ gridMounted' /\ arrayIncludes(headers(data)', classifyCol))
          => (classifyCol' = classifyCol \/ groupColSelected)]_vars

\* the user chose "Unit" although "Category", an earlier header, matches, and
\* the data changed afterwards
C11_Witness ==
    /\ gridMounted
    /\ classifyCol = h_Unit
    /\ Len(headers(data)) = 3
    /\ headers(data)[2] = h_Category
    /\ groupPattern(h_Category)
    /\ \E r \in 1..Len(data) : statusOf(data[r]) = COMPLETED

Reserved == {s_id, s_processingStatus}

\* the position of key k in the keys of row
keyIndex(row, k) == CHOOSE i \in 1..Len(row) : row[i].k = k

\* C12: the headers are the keys of the first row other than id and
\* processingStatus, each once and in the order of the keys; the name column
\* and the group column the grid uses are never id or processingStatus.
C12_DiscoveredColumns ==
    gridMounted
        => LET hs == headers(data)
               first == data[1]
           IN  /\ \A i \in 1..Len(hs) : hs[i] \notin Reserved /\ hasKey(first, hs[i])
               /\ \A k \in 1..Len(first) :
                     first[k].k \notin Reserved => \E i \in 1..Len(hs) : hs[i] = first[k].k
               /\ \A i, j \in 1..Len(hs) :
                     i < j => keyIndex(first, hs[i]) < keyIndex(first, hs[j])
               /\ effectiveNameColumn \notin Reserved
               /\ userSelectedNameCol \notin Reserved
               /\ classifyCol \notin Reserved

\* the grid shows a sheet of three columns, the user has chosen a name column
\* and a group column is set; a sheet with an id column is loaded too
C12_Witness ==
    /\ gridMounted
    /\ Len(headers(data)) = 3
    /\ userSelectedNameCol # <<>>
    /\ classifyCol # <<>>
    /\ \E f \in 1..Len(files) : hasKey(sheetToJson(files[f].name)[1], s_id)

\* a step of handleFileSelect's catch and finally
parseFailed == \E u \in 1..Len(uploads) : parseRejected(u)

\* the start of the upload of a file that cannot be parsed
brokenUploadStarted ==
    \E sheet \in SheetNames : ~sheetReadable(sheet) /\ handleFileSelect(sheet)

\* C14: the upload of a file that cannot be parsed changes neither the files,
\* their rows, nor the active file id; when the parse fails the error message is
\* set and isProcessing is false.
C14_DecodeFailureIsolated ==
    [][/\ brokenUploadStarted => (files' = files /\ activeFileId' = activeFileId)
       /\ parseFailed => /\ files' = files
                         /\ activeFileId' = activeFileId
                         /\ error' = Str(s_parseFailed)
                         /\ truthy(error')
                         /\ isProcessing' = FALSE]_vars

\* a parse failed while the grid showed a file with a completed row
C14_Witness ==
    /\ gridMounted
    /\ truthy(error)
    /\ ~isProcessing
    /\ \E r \in 1..Len(data) : statusOf(data[r]) = COMPLETED

\* C15: every row of a file that parseExcelFile produced has the status
\* Incomplete and an id "row-..." that no other row of the file has, also when
\* the sheet has columns named id and processingStatus.
C15_DecoderDefaults ==
    [][Len(files') > Len(files)
          => LET rows == files'[Len(files')].data
             IN  \A r \in 1..Len(rows) :
                    /\ statusOf(rows[r]) = INCOMPLETE
                    /\ Get(rows[r], s_id).t = "str"
                    /\ SubSeq(Get(rows[r], s_id).s, 1, Len(s_rowPrefix)) = s_rowPrefix
                    /\ \A q \in 1..Len(rows) :
                          q # r => Get(rows[q], s_id) # Get(rows[r], s_id)
                    /\ Cardinality({k \in 1..Len(rows[r]) : rows[r][k].k \in Reserved}) = 2]_vars

\* the grid shows the file of a sheet with the columns id and processingStatus
C15_Witness ==
    /\ gridMounted
    /\ hasKey(sheetToJson(activeFile(files, activeFileId).name)[1], s_id)
    /\ hasKey(sheetToJson(activeFile(files, activeFileId).name)[1], s_processingStatus)

\* C21: whenever the grid shows a dataset that has headers, the effective name
\* column is one of them, whatever the user did before: chose a name column,
\* switched files, uploaded, deleted, toggled statuses.
C21_NameColumnValid ==
    (gridMounted /\ headers(data) # <<>>)
        => arrayIncludes(headers(data), effectiveNameColumn)

\* C22: the active tag of the grid is null or the tag of one of the tags
\* derived from the data and the group column the grid now has.
C22_ActiveTagValid ==
    gridMounted
        => \/ activeTag = Null
           \/ \E t \in 1..Len(currentTags) : Str(currentTags[t].tag) = activeTag

\* C24: the active file id is null or the id of a file of the list; a confirmed
\* deletion of the file App renders sets it to null, and a confirmed deletion
\* of any other file of the list leaves it as it is.
C24_ActiveFileValid ==
    [][/\ activeFileId' = Null \/ hasActiveFile(files', activeFileId')
       /\ \A f \in 1..Len(files) :
             handleDeleteFile(f)
                => activeFileId' = IF gridMounted /\ f = activeIndex
                                   THEN Null ELSE activeFileId]_vars

\* a step in which parseExcelFile resolves
parseSucceeded == \E u \in 1..Len(uploads), t \in ClockValues : parseResolved(u, t)

\* C25: isProcessing is true while a parse is in flight; every parse that
\* resolves adds its file to the list; and when the last parse in flight has
\* finished, the error is that of this last upload: the failure message when
\* it was rejected, none when it resolved.
C25_OverlappingUploads ==
    [][/\ uploads' # <<>> => isProcessing'
       /\ parseSucceeded => Len(files') = Len(files) + 1
       /\ (uploads # <<>> /\ uploads' = <<>>)
             => error' = IF parseSucceeded THEN Null ELSE Str(s_parseFailed)]_vars

----------------------------------------------------------------------------
(* The grid on the example dataset: the application after the upload, at    *)
(* time 1 and from the upload view, of a sheet with the columns Name, Price *)
(* and Unit, and what the user can do in the grid from there.               *)

SheetExample ==
    << Row(<< <<h_Name, Str(v_WidgetA)>>, <<h_Price, Num(10)>>, <<h_Unit, Str(v_box)>> >>),
       Row(<< <<h_Name, Str(v_WidgetB)>>, <<h_Price, Num(0)>>, <<h_Unit, Str(v_box)>> >>),
       Row(<< <<h_Name, Str(v_Gadget)>>, <<h_Price, Num(5)>>, <<h_Unit, Str(v_case)>> >>) >>

ExampleSearchTerms == {<<>>, q_Widget}

InitExample ==
    /\ now = 1
    /\ files = << [id |-> Str(s_filePrefix \o numToString(1)),
                   name |-> "example",
                   createdAt |-> 1,
                   data |-> parseExcelFile(SheetExample, 1)] >>
    /\ activeFileId = files[1].id
    /\ isProcessing = FALSE
    /\ error = Null
    /\ uploads = <<>>
    /\ searchTerm = <<>>
    /\ classifyCol = groupByEffect(headers(files[1].data), <<>>)
    /\ userSelectedNameCol = <<>>
    /\ activeTag = Null
    /\ ModalIdle
    /\ inp = <<>>
    /\ out = <<>>

NextExample ==
    \/ gridMounted /\ \E r \in 1..Len(visibleRows) : clickStatusToggle(r)
    \/ \E st \in ExampleSearchTerms : setSearchTerm(st)
    \/ gridMounted /\ \E h \in 1..Len(headers(data)) : selectNameCol(h)
    \/ gridMounted /\ \E h \in 1..Len(headers(data)) : selectGroupCol(h)
    \/ gridMounted /\ \E t \in 1..Len(currentTags) : clickTag(t)
    \/ clearTag

SpecExample == InitExample /\ [][NextExample]_vars

\* C13: on the example dataset the inferred name column is "Name", the default
\* group column is "Unit", the tags by "Unit" are box with 2 and case with 1,
\* the search "Widget" shows rows 1 and 2, the tag "case" shows row 3, and both
\* together show no row.
C13_WorkedExample ==
    /\ detectedNameCol(data) = h_Name
    /\ userSelectedNameCol = <<>> => effectiveNameColumn = h_Name
    /\ groupByEffect(headers(data), <<>>) = h_Unit
    /\ classifyCol = h_Unit
          => /\ currentTags = << [tag |-> v_box, count |-> 2], [tag |-> v_case, count |-> 1] >>
             /\ (searchTerm = q_Widget /\ activeTag = Null)
                   => visibleRows = <<data[1], data[2]>>
             /\ (searchTerm = <<>> /\ activeTag = Str(v_case))
                   => visibleRows = <<data[3]>>
             /\ (searchTerm = q_Widget /\ activeTag = Str(v_case))
                   => visibleRows = <<>>

\* the third row is completed, the search is "Widget" and the tag "case"
C13_Witness ==
    /\ classifyCol = h_Unit
    /\ searchTerm = q_Widget
    /\ activeTag = Str(v_case)
    /\ visibleRows = <<>>
    /\ statusOf(data[3]) = COMPLETED
    /\ statusOf(data[1]) = INCOMPLETE

----------------------------------------------------------------------------
(* Evaluation of tags and filteredData on enumerated row sets *)

\* the rows of a decoded sheet with the statuses the user has set
withStatuses(jsonData, statuses) ==
    [i \in 1..Len(jsonData) |->
        Put(parseExcelFile(jsonData, 1)[i], s_processingStatus, statuses[i])]

ViewRowKinds ==
    << [json |-> Row(<< <<h_Name, Str(v_WidgetA)>>, <<h_Unit, Str(v_box)>> >>), status |-> INCOMPLETE],
       [json |-> Row(<< <<h_Name, Str(v_Gadget)>>, <<h_Unit, Str(v_boxPadded)>> >>), status |-> COMPLETED],
       [json |-> Row(<< <<h_Name, Str(v_WidgetA)>> >>), status |-> INCOMPLETE],
       [json |-> Row(<< <<h_Name, Num(10)>>, <<h_Unit, Null>> >>), status |-> COMPLETED],
       [json |-> Row(<< <<h_Name, Str(v_Gadget)>>, <<h_Unit, Str(v_empty)>> >>), status |-> INCOMPLETE],
       [json |-> Row(<< <<h_Name, Str(v_WidgetA)>>, <<h_Unit, Str(v_blank)>> >>), status |-> COMPLETED],
       [json |-> Row(<< <<h_Name, Str(v_Gadget)>>, <<h_Unit, Str(s_NA)>> >>), status |-> INCOMPLETE] >>

\* the row set whose i-th row is of kind ks[i]
viewRows(ks) ==
    withStatuses([i \in 1..Len(ks) |-> ViewRowKinds[ks[i]].json],
                 [i \in 1..Len(ks) |-> ViewRowKinds[ks[i]].status])

ViewSearchTerms == {<<>>, q_Widget, v_box, q_comp}
ViewGroupCols == {h_Unit, <<>>}
ViewActiveTags == {Null, Str(v_box), Str(s_NA)}

AppIdle ==
    /\ now = 0
    /\ files = <<>>
    /\ activeFileId = Null
    /\ isProcessing = FALSE
    /\ error = Null
    /\ uploads = <<>>
    /\ searchTerm = <<>>
    /\ classifyCol = <<>>
    /\ userSelectedNameCol = <<>>
    /\ activeTag = Null
    /\ ModalIdle

InitView ==
    /\ AppIdle
    /\ \E n \in 1..MaxRows : \E ks \in [1..n -> 1..Len(ViewRowKinds)] :
       \E st \in ViewSearchTerms, col \in ViewGroupCols, at \in ViewActiveTags :
          inp = [d |-> viewRows(ks), st |-> st, col |-> col, at |-> at]
    /\ out = [done |-> FALSE, tags |-> <<>>, rows |-> <<>>]

\* a render of DataGrid with the row set and the state of inp
renderView ==
    /\ ~out.done
    /\ out' = [done |-> TRUE,
               tags |-> tags(inp.d, inp.col),
               rows |-> filteredData(inp.d, inp.st, inp.col, inp.at)]
    /\ UNCHANGED inp
    /\ UNCHANGED appVars
    /\ UNCHANGED gridVars
    /\ UNCHANGED modalVars

NextView == renderView

SpecView == InitView /\ [][NextView]_vars

----------------------------------------------------------------------------
(* Properties of tags and filteredData, under SpecView *)

inSeq(x, seq) == \E i \in 1..Len(seq) : seq[i] = x

viewCell(i) == Get(inp.d[i], inp.col)

\* rows whose group value is null or undefined
NullishRows == {i \in 1..Len(inp.d) : viewCell(i).t \in {"null", "undef"}}

\* rows whose group value is a string that is empty after trimming
BlankRows == {i \in 1..Len(inp.d) : viewCell(i).t = "str" /\ trim(viewCell(i).s) = <<>>}

\* rows whose group value reads N/A after String and trim
LiteralNARows ==
    {i \in 1..Len(inp.d) : viewCell(i).t \in {"str", "num"} /\ trim(String(viewCell(i))) = s_NA}

NAEntries == {k \in 1..Len(out.tags) : out.tags[k].tag = s_NA}

RECURSIVE sumCounts(_, _)
sumCounts(ts, k) == IF k = 0 THEN 0 ELSE sumCounts(ts, k - 1) + ts[k].count

\* C1 as stated: the rows whose group value is null, undefined or empty after
\* trimming are all counted in one "N/A" tag, whose count is their number (stated
\* for row sets in which no value reads "N/A" itself).
C1_BlankCountedAsNA ==
    (out.done /\ inp.col # <<>> /\ LiteralNARows = {} /\ NullishRows \cup BlankRows # {})
        => \E k \in 1..Len(out.tags) :
              /\ out.tags[k].tag = s_NA
              /\ out.tags[k].count = Cardinality(NullishRows \cup BlankRows)

\* C1 amended: the rows whose group value is null or undefined are counted
\* together, with the rows whose value reads "N/A", in one "N/A" tag, whose count
\* is the number of those rows; a row whose value is empty after trimming is
\* counted in no tag.
C1_NullishCountedAsNA ==
    (out.done /\ inp.col # <<>>)
        => /\ Cardinality(NAEntries) = IF NullishRows \cup LiteralNARows = {} THEN 0 ELSE 1
           /\ \A k \in NAEntries :
                 out.tags[k].count = Cardinality(NullishRows \cup LiteralNARows)
           /\ \A k \in 1..Len(out.tags) : out.tags[k].tag # <<>>
           /\ sumCounts(out.tags, Len(out.tags)) = Len(inp.d) - Cardinality(BlankRows)

C1_Witness ==
    /\ out.done
    /\ inp.col # <<>>
    /\ \E i \in NullishRows : viewCell(i).t = "null"
    /\ \E i \in NullishRows : viewCell(i).t = "undef"
    /\ BlankRows # {}
    /\ NAEntries # {}

\* C3: the visible rows are the rows that match the search text alone and match
\* the active tag alone, in the order of the row set; with an empty search text
\* and no tag every row is visible.
C3_FilterConjunction ==
    out.done
        => /\ out.rows = SelectSeq(inp.d, LAMBDA row :
                            /\ inSeq(row, filteredData(inp.d, inp.st, inp.col, Null))
                            /\ inSeq(row, filteredData(inp.d, <<>>, inp.col, inp.at)))
           /\ filteredData(inp.d, <<>>, inp.col, Null) = inp.d

C3_Witness ==
    /\ out.done
    /\ inp.st # <<>>
    /\ truthy(inp.at)
    /\ Len(out.rows) > 0
    /\ Len(out.rows) < Len(filteredData(inp.d, inp.st, inp.col, Null))
    /\ Len(out.rows) < Len(filteredData(inp.d, <<>>, inp.col, inp.at))

\* the normalized group value of row i: "N/A" for null and undefined, else the
\* value as a string, trimmed
normalized(i) ==
    IF viewCell(i).t \in {"null", "undef"} THEN s_NA ELSE trim(String(viewCell(i)))

NormalValues == {normalized(i) : i \in 1..Len(inp.d)}

tagsOf(v) == {k \in 1..Len(out.tags) : out.tags[k].tag = v}

countsAgree ==
    \A k \in 1..Len(out.tags) :
        /\ out.tags[k].tag \in NormalValues
        /\ out.tags[k].count = Cardinality({i \in 1..Len(inp.d) : normalized(i) = out.tags[k].tag})

countsDescend ==
    \A k \in 1..(Len(out.tags) - 1) : out.tags[k].count >= out.tags[k + 1].count

\* C16 as stated: every distinct normalized group value is in the tag list
\* exactly once, with the number of rows that have it, and the counts do not
\* increase along the list.
C16_TagOrderingAsStated ==
    (out.done /\ inp.col # <<>>)
        => /\ \A v \in NormalValues : Cardinality(tagsOf(v)) = 1
           /\ countsAgree
           /\ countsDescend

\* C16 amended: every distinct normalized group value other than the empty
\* string is in the tag list exactly once, with the number of rows that have
\* it; the empty string is not in the list; the counts do not increase along
\* the list.
C16_TagOrdering ==
    (out.done /\ inp.col # <<>>)
        => /\ \A v \in NormalValues \ {<<>>} : Cardinality(tagsOf(v)) = 1
           /\ tagsOf(<<>>) = {}
           /\ countsAgree
           /\ countsDescend

\* the value of the first row has the smaller count and comes second
C16_Witness ==
    /\ out.done
    /\ inp.col # <<>>
    /\ Len(out.tags) = 2
    /\ out.tags[1].count > out.tags[2].count
    /\ normalized(1) = out.tags[2].tag

sameLetter(a, b) == a = b \/ \E k \in 1..26 : {a, b} = {Upper[k], Lower[k]}

containsIgnoringCase(text, q) ==
    \E off \in 0..(Len(text) - Len(q)) : \A j \in 1..Len(q) : sameLetter(text[off + j], q[j])

\* C4: with no active tag a row is visible exactly when the search text is empty
\* or one of the row's values, as a string, contains it, letter case ignored.
C4_SearchMatching ==
    (out.done /\ ~truthy(inp.at))
        => \A i \in 1..Len(inp.d) :
              inSeq(inp.d[i], out.rows)
                  <=> \/ inp.st = <<>>
                      \/ \E j \in 1..Len(inp.d[i]) :
                            containsIgnoringCase(String(inp.d[i][j].v), inp.st)

C4_Witness ==
    /\ out.done
    /\ ~truthy(inp.at)
    /\ inp.st = q_Widget
    /\ Len(out.rows) > 0
    /\ Len(out.rows) < Len(inp.d)

\* the ids of the rows of a row sequence
rowIds(rows) == {Get(rows[i], s_id) : i \in 1..Len(rows)}

\* C23: with an empty search text, activating a tag of the derived list makes
\* as many rows visible as the tag's count, and the counts of all tags add up
\* to the number of rows whose group value is not empty after trimming.
C23_TagCountsAgreeWithFilter ==
    (out.done /\ inp.col # <<>>)
        => /\ \A k \in 1..Len(out.tags) :
                 Len(filteredData(inp.d, <<>>, inp.col, Str(out.tags[k].tag)))
                    = out.tags[k].count
           /\ sumCounts(out.tags, Len(out.tags))
                 = Cardinality({i \in 1..Len(inp.d) : normalized(i) # <<>>})

\* the tag "box" counts a row with "box" and one with " box ", a third row has
\* a blank value, and the tag is active
C23_Witness ==
    /\ out.done
    /\ inp.col = h_Unit
    /\ inp.st = <<>>
    /\ inp.at = Str(v_box)
    /\ out.tags = << [tag |-> v_box, count |-> 2] >>
    /\ Len(out.rows) = 2
    /\ BlankRows # {}
    /\ \E i \in 1..Len(inp.d) : viewCell(i) = Str(v_boxPadded)

\* the row set after a click on the status toggle of its i-th row
statusToggled(i) ==
    [inp.d EXCEPT ![i] = Put(@, s_processingStatus, statusToggleClick(statusOf(@)))]

\* C27: a visible row has the search text in the value of one of its
\* spreadsheet columns (not only in id or processingStatus), so toggling the
\* status of a row does not change which rows are visible.
C27_SearchSpreadsheetColumnsOnly ==
    out.done
        => /\ \A i \in 1..Len(inp.d) :
                 inSeq(inp.d[i], out.rows)
                    => \/ inp.st = <<>>
                       \/ \E j \in 1..Len(inp.d[i]) :
                             /\ inp.d[i][j].k \notin Reserved
                             /\ containsIgnoringCase(String(inp.d[i][j].v), inp.st)
           /\ \A i \in 1..Len(inp.d) :
                 rowIds(filteredData(statusToggled(i), inp.st, inp.col, inp.at))
                    = rowIds(out.rows)

----------------------------------------------------------------------------
(* Evaluation of detectedNameCol on enumerated row sets: a column holds k    *)
(* numeric values (numbers and digit strings in turn), then j strings with a *)
(* space and more than five characters, then short strings.                  *)

sampleValue(i, k, j) ==
    IF i <= k THEN (IF i % 2 = 1 THEN Num(7) ELSE Str(v_digitsPadded))
    ELSE IF i <= k + j THEN Str(v_long)
    ELSE Str(v_box)

ColumnShapes(n) == {kj \in (0..n) \X (0..n) : kj[1] + kj[2] <= n}

\* the decoded sheet with columns hs, n rows, column c of shape shape[c]
sampleSheet(hs, shape, n) ==
    parseExcelFile(
        [i \in 1..n |->
            [c \in 1..Len(hs) |->
                [k |-> hs[c], v |-> sampleValue(i, shape[c][1], shape[c][2])]]], 1)

InferHeaderPool ==
    {h_ClassificationDataCode, h_Description, h_ProductName, h_Name,
     h_Price, h_SKU, h_Unit, h_Title}

InferHeaderLists ==
    {<<h>> : h \in InferHeaderPool}
    \cup {hs \in InferHeaderPool \X InferHeaderPool : hs[1] # hs[2]}
    \cup {<<h_Notes, h_Unit, h_Stock>>, <<h_SKU, h_Unit, h_Price>>}

InitInfer ==
    /\ AppIdle
    /\ \E hs \in InferHeaderLists : \E n \in 1..MaxRows :
       \E shape \in [1..Len(hs) -> ColumnShapes(n)] :
          inp = [d |-> sampleSheet(hs, shape, n)]
    /\ out = [done |-> FALSE, scores |-> <<>>, detected |-> <<>>]

\* the evaluation of detectedNameCol's useMemo
inferNameCol ==
    /\ ~out.done
    /\ out' = [done |-> TRUE, scores |-> scores(inp.d), detected |-> detectedNameCol(inp.d)]
    /\ UNCHANGED inp
    /\ UNCHANGED appVars
    /\ UNCHANGED gridVars
    /\ UNCHANGED modalVars

NextInfer == inferNameCol

SpecInfer == InitInfer /\ [][NextInfer]_vars

----------------------------------------------------------------------------
(* Properties of detectedNameCol, under SpecInfer *)

hasHeader(h) == \E i \in 1..Len(out.scores) : out.scores[i].header = h

scoreOf(h) == out.scores[CHOOSE i \in 1..Len(out.scores) : out.scores[i].header = h].score

\* both are columns, with the same value in every row
sameSamples(h, g) ==
    /\ hasHeader(h)
    /\ hasHeader(g)
    /\ \A i \in 1..Len(inp.d) : Get(inp.d[i], h) = Get(inp.d[i], g)

scoresHigher(h, g) == sameSamples(h, g) => scoreOf(h) > scoreOf(g)

\* C2 as stated: with the same sample values, "Classification Data Code" scores
\* higher than "Description", that higher than "Product Name", that higher than
\* "Name".
C2_PriorityAsStated ==
    out.done
        => /\ scoresHigher(h_ClassificationDataCode, h_Description)
           /\ scoresHigher(h_Description, h_ProductName)
           /\ scoresHigher(h_ProductName, h_Name)

\* C2 amended: with the same sample values, "Description" scores higher than
\* "Product Name", that higher than "Name", and that higher than "Classification
\* Data Code", whose 100 for "classification data" is reduced by the 50 for "code".
C2_PriorityWithCodePenalty ==
    out.done
        => /\ scoresHigher(h_Description, h_ProductName)
           /\ scoresHigher(h_Description, h_Name)
           /\ scoresHigher(h_Description, h_ClassificationDataCode)
           /\ scoresHigher(h_ProductName, h_Name)
           /\ scoresHigher(h_ProductName, h_ClassificationDataCode)
           /\ scoresHigher(h_Name, h_ClassificationDataCode)
           /\ hasHeader(h_ClassificationDataCode)
                 => headerScores[h_ClassificationDataCode] = 50

C2_Witness ==
    /\ out.done
    /\ sameSamples(h_Name, h_ClassificationDataCode)
    /\ Len(inp.d) = 3
    /\ scoreOf(h_Name) = 140
    /\ scoreOf(h_ClassificationDataCode) = 130

maxScore == CHOOSE m \in {out.scores[i].score : i \in 1..Len(out.scores)} :
                \A i \in 1..Len(out.scores) : out.scores[i].score <= m

\* C7: of the headers with the highest score the first in header order is
\* returned.
C7_TieBreak ==
    (out.done /\ Len(out.scores) > 0)
        => \E i \in 1..Len(out.scores) :
              /\ out.scores[i].score = maxScore
              /\ \A j \in 1..(i - 1) : out.scores[j].score < maxScore
              /\ out.detected = out.scores[i].header

C7_Witness ==
    /\ out.done
    /\ Len(out.scores) = 3
    /\ out.scores[1].score < maxScore
    /\ out.scores[2].score = maxScore
    /\ out.scores[3].score = maxScore
    /\ out.detected = out.scores[2].header

\* a column named h whose sampled values are mostly numeric, beside another
\* column whose header text scores at least 0
penalised(h) ==
    /\ hasHeader(h)
    /\ mostlyNumeric(h, inp.d)
    /\ \E i \in 1..Len(out.scores) :
          out.scores[i].header # h /\ headerScores[out.scores[i].header] >= 0

\* the same, the other column's sampled values not being mostly numeric
penalisedBesideText(h) ==
    /\ hasHeader(h)
    /\ mostlyNumeric(h, inp.d)
    /\ \E i \in 1..Len(out.scores) :
          /\ out.scores[i].header # h
          /\ headerScores[out.scores[i].header] >= 0
          /\ ~mostlyNumeric(out.scores[i].header, inp.d)

\* C8 as stated: a mostly numeric "Price" or "SKU" is never returned when another
\* header's text scores at least 0, whatever that header's sample values.
C8_PenaltyDominanceAsStated ==
    out.done
        => /\ penalised(h_Price) => out.detected # h_Price
           /\ penalised(h_SKU) => out.detected # h_SKU

\* C8 amended: a mostly numeric "Price" is never returned when another header's
\* text scores at least 0, whatever that header's sample values; a mostly numeric
\* "SKU" is never returned when the sample values of such a header are not mostly
\* numeric themselves.
C8_PenaltyDominance ==
    out.done
        => /\ penalised(h_Price) => out.detected # h_Price
           /\ penalisedBesideText(h_SKU) => out.detected # h_SKU

C8_Witness ==
    /\ out.done
    /\ penalisedBesideText(h_SKU)
    /\ scoreOf(h_SKU) = 0 - 170
    /\ out.detected = h_Unit
    /\ scoreOf(h_Unit) = 0

----------------------------------------------------------------------------
(* Evaluation of detectedNameCol on row sets with the columns Notes and     *)
(* Stock: the Notes cells of the first rows, SampleLimit at most, are of    *)
(* any kinds (in the order of CellKinds), the Stock cells are "box"; a row  *)
(* set of SampleLimit rows may have further rows. A second row set has the  *)
(* same first rows, other reserved fields and no further rows.              *)

Absent == [t |-> "absent", n |-> 0, s |-> <<>>]

CellKinds ==
    << Num(7), Str(v_digitsPadded), Str(v_digitsLong), Str(v_long), Str(v_Gadget),
       Str(v_shortSpaced), Str(v_box), Str(v_empty), Null, Absent >>

ExtraKinds == {1, 4}

\* a decoded sheet row with the Notes cell of kind c
kindRow(c) ==
    IF CellKinds[c] = Absent
    THEN Row(<< <<h_Stock, Str(v_box)>> >>)
    ELSE Row(<< <<h_Notes, CellKinds[c]>>, <<h_Stock, Str(v_box)>> >>)

ordered(ks) == \A i \in 1..(Len(ks) - 1) : ks[i] <= ks[i + 1]

\* the same rows decoded at another time, all completed
otherReserved(jsonData) ==
    [i \in 1..Len(jsonData) |->
        Put(parseExcelFile(jsonData, 2)[i], s_processingStatus, COMPLETED)]

sampleInput(ks, extra) ==
    [d |-> parseExcelFile([i \in 1..(Len(ks) + Len(extra)) |->
                              kindRow((ks \o extra)[i])], 1),
     e |-> otherReserved([i \in 1..Len(ks) |-> kindRow(ks[i])])]

\* a sheet without columns
bareInput(n) ==
    [d |-> parseExcelFile([i \in 1..n |-> <<>>], 1),
     e |-> otherReserved([i \in 1..n |-> <<>>])]

InitSample ==
    /\ AppIdle
    /\ \/ \E n \in 1..SampleLimit : \E ks \in [1..n -> 1..Len(CellKinds)] :
             ordered(ks) /\ inp = sampleInput(ks, <<>>)
       \/ \E ks \in [1..SampleLimit -> 1..Len(CellKinds)] :
          \E m \in 1..MaxExtra : \E extra \in [1..m -> ExtraKinds] :
             ordered(ks) /\ inp = sampleInput(ks, extra)
       \/ \E n \in 1..SampleLimit : inp = bareInput(n)
    /\ out = [done |-> FALSE, scores |-> <<>>, detected |-> <<>>, detectedOther |-> <<>>]

\* the evaluation of detectedNameCol's useMemo for both row sets
sampleNameCol ==
    /\ ~out.done
    /\ out' = [done |-> TRUE,
               scores |-> scores(inp.d),
               detected |-> detectedNameCol(inp.d),
               detectedOther |-> detectedNameCol(inp.e)]
    /\ UNCHANGED inp
    /\ UNCHANGED appVars
    /\ UNCHANGED gridVars
    /\ UNCHANGED modalVars

NextSample == sampleNameCol

SpecSample == InitSample /\ [][NextSample]_vars

----------------------------------------------------------------------------
(* Properties of detectedNameCol, under SpecSample *)

\* the number of sampled rows, and the sampled Notes cells
sampled == Min(Len(inp.d), 5)

noteCell(i) == Get(inp.d[i], h_Notes)

notesScored == hasHeader(h_Notes)

noteScore == scoreOf(h_Notes)

\* C17: without headers the inferred name column is the empty string; with
\* headers it is one of them, whatever the cells are: numbers, strings, empty
\* strings, null or absent.
C17_InferenceTotal ==
    out.done
        => LET first == inp.d[1]
               columns == {first[k].k : k \in 1..Len(first)} \ Reserved
           IN  IF columns = {} THEN out.detected = <<>> ELSE out.detected \in columns

\* a column with a number, an empty string, a null and an absent cell
C17_Witness ==
    /\ out.done
    /\ out.detected = h_Notes
    /\ \E i \in 1..sampled : noteCell(i).t = "num"
    /\ \E i \in 1..sampled : noteCell(i) = Str(v_empty)
    /\ \E i \in 1..sampled : noteCell(i) = Null
    /\ \E i \in 1..sampled : ~hasKey(inp.d[i], h_Notes)

\* C18: the inferred name column of a row set is that of the row set with the
\* same headers and the same first five rows, other ids and statuses and no
\* later rows.
C18_SampleOnly ==
    out.done => out.detected = out.detectedOther

numericCell(v) == v.t = "num" \/ (v.t = "str" /\ trim(v.s) # <<>> /\ \A c \in 1..Len(trim(v.s)) : trim(v.s)[c] \in DigitChars)

numericSampled == Cardinality({i \in 1..sampled : numericCell(noteCell(i))})

\* three of the five sampled cells are numeric, and so is the sixth row's
C18_Witness ==
    /\ out.done
    /\ Len(inp.d) > Len(inp.e)
    /\ Len(inp.e) = 5
    /\ numericSampled = 3
    /\ numericCell(noteCell(6))
    /\ out.detected = h_Notes

\* the parts of a score that is the sum of -200 or 0, 50 or 0, and 30 or 0
hasSpaceBonus(score) == score \in {50, 80, 0 - 150, 0 - 120}
hasLengthBonus(score) == score \in {30, 80, 0 - 170, 0 - 120}
hasNumericPenalty(score) == score < 0

\* C19 as stated: the column gets the 50 exactly when a sampled value is a
\* string with a space, and the 30 exactly when a sampled value is a string of
\* more than 5 characters, strings of digits included.
C19_ShapeBonusesAsStated ==
    (out.done /\ notesScored)
        => /\ hasSpaceBonus(noteScore)
                <=> \E i \in 1..sampled :
                       noteCell(i).t = "str" /\ includes(noteCell(i).s, <<" ">>)
           /\ hasLengthBonus(noteScore)
                <=> \E i \in 1..sampled :
                       noteCell(i).t = "str" /\ Len(noteCell(i).s) > 5

\* C19 amended: the column gets the 50 exactly when a sampled value is a
\* string that is not all digits after trimming and has a space, and the 30
\* exactly when a sampled value is a string that is not all digits after
\* trimming and has more than 5 characters.
C19_ShapeBonuses ==
    (out.done /\ notesScored)
        => /\ hasSpaceBonus(noteScore)
                <=> \E i \in 1..sampled :
                       /\ noteCell(i).t = "str"
                       /\ ~numericCell(noteCell(i))
                       /\ includes(noteCell(i).s, <<" ">>)
           /\ hasLengthBonus(noteScore)
                <=> \E i \in 1..sampled :
                       /\ noteCell(i).t = "str"
                       /\ ~numericCell(noteCell(i))
                       /\ Len(noteCell(i).s) > 5

\* digits with blanks around them, seven digits, a short string with a space
\* and a long one without: only the last two give a bonus
C19_Witness ==
    /\ out.done
    /\ notesScored
    /\ \E i \in 1..sampled : noteCell(i) = Str(v_digitsPadded)
    /\ \E i \in 1..sampled : noteCell(i) = Str(v_digitsLong)
    /\ \E i \in 1..sampled : noteCell(i) = Str(v_box)
    /\ noteScore = 0 - 200

\* C20: the column gets the -200 exactly when more than 0.6 of the sampled
\* values are numbers or strings of digits after trimming; absent values are
\* sampled and are not numeric; 3 of 5 do not give it and 4 of 5 do.
C20_NumericThreshold ==
    (out.done /\ notesScored)
        => /\ hasNumericPenalty(noteScore) <=> numericSampled * 10 > sampled * 6
           /\ (sampled = 5 /\ numericSampled = 3) => ~hasNumericPenalty(noteScore)
           /\ (sampled = 5 /\ numericSampled = 4) => hasNumericPenalty(noteScore)

\* three numeric values and two absent ones
C20_Witness ==
    /\ out.done
    /\ notesScored
    /\ sampled = 5
    /\ numericSampled = 3
    /\ Cardinality({i \in 1..sampled : ~hasKey(inp.d[i], h_Notes)}) = 2
    /\ ~hasNumericPenalty(noteScore)

----------------------------------------------------------------------------
(* The image search modal of the grid on the example dataset. DataGrid keeps *)
(* isSearchModalOpen and searchProductName, ImageSearchModal its images,     *)
(* loading flag and error. The open modal covers the grid, so a row's image  *)
(* button is clicked while the modal is closed. A handleSearch call waits    *)
(* for searchProductImages, which resolves with a list of urls or, when it   *)
(* found none or failed, with an empty list; calls resolve in any order.     *)

MaxSearches == 2    \* handleSearch calls in flight

\* what searchProductImages(name) can resolve with: no url, or the url of an
\* image of that product (written as the product's name)
imageResults(name) == {<<>>, <<name>>}

\* the cell of the name column in the r-th visible row
productName(r) == Get(visibleRows[r], effectiveNameColumn)

\* the image button of the r-th visible row: handleImageSearch, then the
\* modal's effect, which calls handleSearch up to its await
handleImageSearch(r) ==
    /\ gridMounted
    /\ ~isSearchModalOpen
    /\ truthy(productName(r))
    /\ Len(searches) < MaxSearches
    /\ searchProductName' = String(productName(r))
    /\ isSearchModalOpen' = TRUE
    /\ isLoading' = TRUE
    /\ modalError' = Null
    /\ searches' = Append(searches, searchProductName')
    /\ UNCHANGED images
    /\ UNCHANGED appVars
    /\ UNCHANGED gridVars
    /\ UNCHANGED evalVars

\* the modal's close button: onClose, then the modal's effect, which resets
\* the images and the error
closeModal ==
    /\ isSearchModalOpen
    /\ isSearchModalOpen' = FALSE
    /\ images' = <<>>
    /\ modalError' = Null
    /\ UNCHANGED <<searchProductName, isLoading, searches>>
    /\ UNCHANGED appVars
    /\ UNCHANGED gridVars
    /\ UNCHANGED evalVars

\* searchProductImages resolved for the k-th call in flight: the rest of
\* handleSearch's try, and its finally
searchResolved(k, results) ==
    /\ modalError' = IF Len(results) = 0 THEN Str(s_noImages) ELSE modalError
    /\ images' = results
    /\ isLoading' = FALSE
    /\ searches' = removeAt(searches, k)
    /\ UNCHANGED <<isSearchModalOpen, searchProductName>>
    /\ UNCHANGED appVars
    /\ UNCHANGED gridVars
    /\ UNCHANGED evalVars

InitImage == InitExample

NextImage ==
    \/ gridMounted /\ \E r \in 1..Len(visibleRows) : handleImageSearch(r)
    \/ closeModal
    \/ \E k \in 1..Len(searches) : \E results \in imageResults(searches[k]) :
          searchResolved(k, results)

SpecImage == InitImage /\ [][NextImage]_vars

----------------------------------------------------------------------------
(* Properties of the image search modal, under SpecImage *)

\* C26: a closed modal holds no images; and once no search is in flight, an
\* open modal is not loading and shows what the search for the product it
\* displays resolved with: that product's images and no error, or no image
\* and the error that none was found.
C26_ImagesNeverStale ==
    /\ ~isSearchModalOpen => images = <<>>
    /\ (isSearchModalOpen /\ searches = <<>>)
          => /\ ~isLoading
             /\ images \in imageResults(searchProductName)
             /\ modalError = IF images = <<>> THEN Str(s_noImages) ELSE Null

====
